---- MODULE Spec2Model ----
(***************************************************************************)
(* Model of src/simulateChemicals.py: the class ODESystemSimulator         *)
(* (constructor, getOutput, concentrations, trajectories), the vector      *)
(* field dX_dt and the module-level script.                                *)
(*                                                                         *)
(* Real numbers are modelled exactly (as integer numerators over a common  *)
(* denominator); scipy's odeint and pylab are library collaborators that   *)
(* appear only through what the code passes to them and takes from them.   *)
(***************************************************************************)
EXTENDS Integers, Sequences, FiniteSets, TLC

\* ---------------------------------------------------------------- bounds
\* longest initial-conditions vector a caller passes to getOutput
MaxLen == 3

\* ------------------------------------------------------ program constants
\* linspace(0, endTime, 100000) in concentrations and trajectories
NumTimeSteps == 100000
\* default endTime of concentrations and trajectories
DefaultEndTime == 1000
\* the script's system.concentrations(200)
ScriptEndTime == 200
\* the script's ODESystemSimulator(dX_dt, 2)
ScriptSize == 2

\* ------------------------------------------------------------ time grids
\* numpy.linspace(start, stop, num): num uniformly spaced points, kept as
\* its three arguments; element i is ElemNum(t, i) / ElemDen(t).
linspace(start, stop, num) == [start |-> start, stop |-> stop, num |-> num]

ElemDen(t) == IF t.num > 1 THEN t.num - 1 ELSE 1

ElemNum(t, i) == t.start * ElemDen(t) + i * (t.stop - t.start)

EndTimes == {ScriptEndTime, DefaultEndTime}

\* the time grids callers of getOutput pass: the one-point grid [0], the
\* two-point grid [0, 200] and the script's linspace(0, 200, 100000)
TimeGrids ==
  {linspace(0, ScriptEndTime, n) : n \in {1, 2, NumTimeSteps}}

\* the initial-conditions vectors callers of getOutput pass (Python
\* lists): [v] * n for n up to MaxLen
ICs == {[i \in 1..n |-> v] : n \in 0..MaxLen, v \in {0, 1}}

\* --------------------------------------------------------- vector fields
\* The functions handed to the constructor.  dX_dt is the one of the
\* source; the others are caller-supplied fields of 1, 2 and 3 variables:
\*   square = lambda x, t=0: [x[0]**2]
\*   logs   = lambda x, t=0: [-x[0], -x[1], math.log(x[2])]
\*   zero   = lambda x, t=0: [0, 0]
\*   same   = lambda x, t=0: [-x[0]] * 2
Fields == {"dX_dt", "square", "logs", "zero", "same"}

\* length of the derivative vector the field returns
Dim(func) ==
  CASE func = "dX_dt" -> 2
    [] func = "square" -> 1
    [] func = "logs" -> 3
    [] func = "zero" -> 2
    [] func = "same" -> 2

\* number of leading components of its argument the field indexes
Reads(func) ==
  CASE func = "dX_dt" -> 2
    [] func = "square" -> 1
    [] func = "logs" -> 3
    [] func = "zero" -> 0
    [] func = "same" -> 1

\* the field raises at the state y (math.log of a non-positive number)
FieldRaises(func, y) == func = "logs" /\ y[3] <= 0

\* the solution from y0 leaves every bound before the end of the grid
\* (x' = x^2 from x0 > 0 blows up at time 1/x0)
Diverges(func, y0, t) ==
  func = "square" /\ y0[1] > 0 /\ y0[1] * (t.stop - t.start) >= 1

\* ------------------------------------------------------------- outcomes
NoTraj == [rows |-> 0, cols |-> 0, first |-> <<>>, converged |-> FALSE]

\* a returned array: rows x cols, its first row, and whether the solver
\* reached the end of the grid (istate > 0) or gave up on the way
Array(rows, first, converged) ==
  [kind |-> "array", exc |-> "none",
   traj |-> [rows |-> rows, cols |-> Len(first), first |-> first,
             converged |-> converged]]

Raise(exc) == [kind |-> "raise", exc |-> exc, traj |-> NoTraj]

\* scipy.integrate.odeint(func, y0, t) as getOutput calls it (no
\* full_output): y0 is copied to row 0, one row per time; on a one-point
\* grid there is nothing to integrate and func is not called; a Python
\* error in func propagates (indexing past the end of y0, a result of the
\* wrong length, an error of func itself); a solver failure (istate < 0)
\* is an ODEintWarning and the array is returned all the same.
odeint(func, y0, t) ==
  IF t.num = 1 THEN Array(1, y0, TRUE)
  ELSE IF Len(y0) < Reads(func) THEN Raise("IndexError")
  ELSE IF Len(y0) # Dim(func) THEN Raise("RuntimeError")
  ELSE IF FieldRaises(func, y0) THEN Raise("ValueError")
  ELSE Array(t.num, y0, ~Diverges(func, y0, t))

\* --------------------------------------------------------------- Python
\* a + b on the types of the operands: str + str is a str, str + list and
\* str + int raise TypeError
PyAdd(a, b) ==
  IF a = "TypeError" THEN "TypeError"
  ELSE IF a = "str" /\ b = "str" THEN "str"
  ELSE "TypeError"

\* "Inputed " + initialConditions + " initial conditions but there is
\* only " + self.__systemSize
MismatchMessage(icType, sizeType) ==
  PyAdd(PyAdd(PyAdd("str", icType), "str"), sizeType)

\* ------------------------------------------------------------ getOutput
\* getOutput integrating over t[:-1] instead of t
getOutput_shortGrid(self, initialConditions, t) ==
  LET mismatch == Len(initialConditions) # self.systemSize
      X == odeint(self.systemFunction, initialConditions,
                  linspace(t.start, t.stop, t.num - 1))
  IN  IF mismatch /\ MismatchMessage("list", "int") = "TypeError"
      THEN [ret |-> Raise("TypeError"), odeintCalls |-> 0, printed |-> FALSE,
            ic |-> initialConditions, t |-> t]
      ELSE [ret |-> X, odeintCalls |-> 1, printed |-> mismatch,
            ic |-> initialConditions, t |-> t]

\* getOutput integrating from [0] * N, as concentrations does, instead of
\* from initialConditions
getOutput_zeroStart(self, initialConditions, t) ==
  LET mismatch == Len(initialConditions) # self.systemSize
      X == odeint(self.systemFunction, [i \in 1..self.systemSize |-> 0], t)
  IN  IF mismatch /\ MismatchMessage("list", "int") = "TypeError"
      THEN [ret |-> Raise("TypeError"), odeintCalls |-> 0, printed |-> FALSE,
            ic |-> initialConditions, t |-> t]
      ELSE [ret |-> X, odeintCalls |-> 1, printed |-> mismatch,
            ic |-> initialConditions, t |-> t]

\* getOutput(self, initialConditions, t): what it returns or raises, how
\* often it called odeint, whether the message was printed, and the
\* caller's two arguments as the call leaves them.
getOutput(self, initialConditions, t) ==
  LET mismatch == Len(initialConditions) # self.systemSize
      msg == MismatchMessage("list", "int")
      X == odeint(self.systemFunction, initialConditions, t)
  IN  IF mismatch /\ msg = "TypeError"
      THEN [ret |-> Raise("TypeError"), odeintCalls |-> 0, printed |-> FALSE,
            ic |-> initialConditions, t |-> t]
      ELSE [ret |-> X, odeintCalls |-> 1, printed |-> mismatch,
            ic |-> initialConditions, t |-> t]

\* ------------------------------------------------------ direction field
\* A float is n / d divided by every norm in `by`; a norm is sqrt(s) / d.
\* d = 0 marks the result of a division by zero (nan or inf).
Value(n, d) == [n |-> n, d |-> d, by |-> <<>>]

\* numpy.hypot(u, v) at one grid point
hypot(u, v) ==
  IF u.d = v.d
  THEN [s |-> u.n * u.n + v.n * v.n, d |-> u.d]
  ELSE [s |-> u.n * v.d * u.n * v.d + v.n * u.d * v.n * u.d, d |-> u.d * v.d]

\* M[M == 0] = 1. at one grid point
ReplaceZero(m) == IF m.s = 0 THEN [s |-> 1, d |-> 1] ELSE m

\* u / m at one grid point: 0 / m is 0 and u / 1 is u; anything / 0 is nan
\* or inf (numpy warns and goes on)
Div(u, m) ==
  IF m.s = 0 THEN [n |-> u.n, d |-> 0, by |-> <<>>]
  ELSE IF u.n = 0 \/ m.s = m.d * m.d THEN u
  ELSE [u EXCEPT !.by = Append(@, m)]

\* linspace(0, max, n)[i] is max * i / GridDen(n)
GridDen(n) == IF n > 1 THEN n - 1 ELSE 1

\* the points of meshgrid(x, y): <<i, j>> is x[i], y[j]
GridPoints(n) == (0..(n - 1)) \X (0..(n - 1))

Abs(i) == IF i < 0 THEN -i ELSE i

RECURSIVE Gcd(_, _)
Gcd(i, j) == IF j = 0 THEN i ELSE Gcd(j, i % j)

\* dX_dt(inputs, t=0) at X = a / q, Y = b / q:
\*   dX_dt = 1 + 0.02* X**2 *Y - 2*X - 0.04*X,  dY_dt = 2*X - 0.02* X**2 *Y
\* both over the denominator 50 q^3, in lowest terms
dX_dt(a, b, q) ==
  LET den == 50 * q * q * q
      nx == 50 * q * q * q + a * a * b - 102 * a * q * q
      ny == 100 * a * q * q - a * a * b
      g == Gcd(Gcd(Abs(nx), Abs(ny)), den)
  IN  <<Value(nx \div g, den \div g), Value(ny \div g, den \div g)>>

\* the pair a 2-variable field returns at X = a / q, Y = b / q
DerivativeAt(func, a, b, q) ==
  CASE func = "dX_dt" -> dX_dt(a, b, q)
    [] func = "same" -> <<Value(-a, q), Value(-a, q)>>
    [] func = "zero" -> <<Value(0, 1), Value(0, 1)>>

\* self.__systemFunction([X, Y]) unpacked into DX, DY: the two names and
\* the objects they are bound to.  dX_dt builds two arrays; same returns
\* one array twice; zero returns two Python numbers; square returns one
\* value only and logs indexes a third input.
FieldCall(func, n, xmax, ymax) ==
  LET q == GridDen(n)
      at(k) == [p \in GridPoints(n) |->
                  DerivativeAt(func, xmax * p[1], ymax * p[2], q)[k]]
  IN  CASE func = "dX_dt" ->
             [exc |-> "none", DX |-> "r1", DY |-> "r2",
              heap |-> [o \in {"r1", "r2"} |->
                 [shape |-> "array", at |-> at(IF o = "r1" THEN 1 ELSE 2)]]]
        [] func = "same" ->
             [exc |-> "none", DX |-> "r1", DY |-> "r1",
              heap |-> [o \in {"r1"} |-> [shape |-> "array", at |-> at(1)]]]
        [] func = "zero" ->
             [exc |-> "none", DX |-> "r1", DY |-> "r2",
              heap |-> [o \in {"r1", "r2"} |->
                 [shape |-> "scalar", at |-> at(IF o = "r1" THEN 1 ELSE 2)]]]
        [] func = "square" ->
             [exc |-> "ValueError", DX |-> "none", DY |-> "none", heap |-> <<>>]
        [] func = "logs" ->
             [exc |-> "IndexError", DX |-> "none", DY |-> "none", heap |-> <<>>]

\* name /= M: an array is divided in place, so every name bound to it sees
\* the quotient; a Python number is not, and name is bound to a new array
InPlaceDivide(st, name, fresh, M) ==
  LET ref == st[name]
      quotient == [p \in DOMAIN M |-> Div(st.heap[ref].at[p], M[p])]
      obj == [shape |-> "array", at |-> quotient]
  IN  IF st.heap[ref].shape = "array"
      THEN [st EXCEPT !.heap[ref] = obj]
      ELSE [st EXCEPT ![name] = fresh,
                      !.heap = [o \in DOMAIN st.heap \cup {fresh} |->
                                  IF o = fresh THEN obj ELSE st.heap[o]]]

\* lines 87-95 of trajectories: the grid, the derivative on it, its norm
\* with zeros replaced by one, and the two in-place divisions
DirectionField(func, n, xmax, ymax) ==
  LET st == FieldCall(func, n, xmax, ymax)
      scalarM == st.heap[st.DX].shape = "scalar"
                 /\ st.heap[st.DY].shape = "scalar"
      M0 == [p \in GridPoints(n) |->
               hypot(st.heap[st.DX].at[p], st.heap[st.DY].at[p])]
      M == [p \in GridPoints(n) |-> ReplaceZero(M0[p])]
      s1 == InPlaceDivide(st, "DX", "q1", M)
      s2 == InPlaceDivide(s1, "DY", "q2", M)
  IN  IF st.exc # "none"
      THEN [xmax |-> xmax, ymax |-> ymax, n |-> n, status |-> st.exc,
            vec |-> <<>>]
      ELSE IF scalarM
      THEN [xmax |-> xmax, ymax |-> ymax, n |-> n, status |-> "TypeError",
            vec |-> <<>>]
      ELSE [xmax |-> xmax, ymax |-> ymax, n |-> n, status |-> "ok",
            vec |-> [p \in GridPoints(n) |->
                       <<s2.heap[s2.DX].at[p], s2.heap[s2.DY].at[p]>>]]

\* ----------------------------------------------------------------- state
Drivers == {"system", "other"}

VARIABLES
  drivers,      \* driver -> [systemFunction, systemSize]
  pc,           \* "idle", or "loop" inside a running trajectories call
  lastCall,     \* the latest getOutput call of the latest call on a driver
  remembered,   \* one earlier getOutput call, kept for comparison
  view          \* the latest concentrations or trajectories call

vars == <<drivers, pc, lastCall, remembered, view>>

\* a getOutput call on driver d as the caller sees it
CallRecord(d, ic, t) ==
  [driver |-> d, fn |-> drivers[d].systemFunction,
   size |-> drivers[d].systemSize, icArg |-> ic, tArg |-> t,
   out |-> getOutput(drivers[d], ic, t)]

NoCall ==
  [driver |-> "none", fn |-> "none", size |-> 0, icArg |-> <<>>,
   tArg |-> linspace(0, 0, 0),
   out |-> [ret |-> Raise("none"), odeintCalls |-> 0, printed |-> FALSE,
            ic |-> <<>>, t |-> linspace(0, 0, 0)]]

NoField == [xmax |-> 0, ymax |-> 0, n |-> 0, status |-> "none", vec |-> <<>>]

NoView ==
  [kind |-> "none", driver |-> "none", endTime |-> 0, list |-> <<>>,
   cols |-> <<>>, samplingPoints |-> 0, idx |-> 0, calls |-> <<>>,
   plotted |-> 0, field |-> NoField, outcome |-> "none"]

\* __init__(self, function, numVariables)
Construct(function, numVariables) ==
  [systemFunction |-> function, systemSize |-> numVariables]

\* system = ODESystemSimulator(dX_dt, 2), and one more driver built by a
\* caller from any of the fields
Init ==
  /\ drivers \in {ds \in [Drivers -> {Construct(f, Dim(f)) : f \in Fields}] :
                    ds["system"] = Construct("dX_dt", ScriptSize)}
  /\ pc = "idle"
  /\ lastCall = NoCall
  /\ remembered = NoCall
  /\ view = NoView

\* the call that lastCall is about to replace may be kept in remembered
Remember ==
  IF remembered = NoCall
  THEN remembered' \in {NoCall, lastCall}
  ELSE UNCHANGED remembered

\* getOutput answering from a cache keyed on the initial conditions alone
GetOutputCall_cached(d, ic, t) ==
  /\ pc = "idle"
  /\ lastCall' = IF lastCall.driver = d /\ lastCall.icArg = ic
                 THEN [CallRecord(d, ic, t) EXCEPT !.out = lastCall.out]
                 ELSE CallRecord(d, ic, t)
  /\ Remember
  /\ view' = NoView
  /\ UNCHANGED <<drivers, pc>>

\* getOutput adopting the length of the initial conditions as the size
GetOutputCall_resize(d, ic, t) ==
  /\ pc = "idle"
  /\ lastCall' = CallRecord(d, ic, t)
  /\ Remember
  /\ view' = NoView
  /\ drivers' = [drivers EXCEPT ![d].systemSize = Len(ic)]
  /\ UNCHANGED pc

\* a caller's getOutput(ic, t) on driver d
GetOutputCall(d, ic, t) ==
  /\ pc = "idle"
  /\ lastCall' = CallRecord(d, ic, t)
  /\ Remember
  /\ view' = NoView
  /\ UNCHANGED <<drivers, pc>>

\* X[:, k] for each k of cols, in order: how many succeed before one is
\* out of range (IndexError)
InRange(ncols, cols) ==
  LET bad == {k \in 1..Len(cols) : cols[k] >= ncols}
  IN  IF bad = {} THEN Len(cols)
      ELSE (CHOOSE k \in bad : \A j \in bad : k <= j) - 1

\* the choices of Xs a caller of concentrations makes ([0, 1] by default)
XsChoices == {<<0, 1>>, <<0>>, <<0, 2>>}

\* concentrations starting from [0, 0] whatever the size of the system
Concentrations_twoZeros(d, endTime, Xs) ==
  LET t == linspace(0, endTime, NumTimeSteps)
      c == CallRecord(d, <<0, 0>>, t)
      X == c.out.ret
      done == IF X.kind = "raise" THEN 0 ELSE InRange(X.traj.cols, Xs)
  IN  /\ pc = "idle"
      /\ lastCall' = c
      /\ Remember
      /\ view' = [NoView EXCEPT
           !.kind = "concentrations", !.driver = d, !.endTime = endTime,
           !.cols = Xs, !.calls = <<c>>, !.plotted = done,
           !.outcome = IF X.kind = "raise" THEN X.exc
                       ELSE IF done < Len(Xs) THEN "IndexError"
                       ELSE "shown"]
      /\ UNCHANGED <<drivers, pc>>

\* concentrations(self, endTime, Xs)
Concentrations(d, endTime, Xs) ==
  LET t == linspace(0, endTime, NumTimeSteps)
      c == CallRecord(d, [i \in 1..drivers[d].systemSize |-> 0], t)
      X == c.out.ret
      done == IF X.kind = "raise" THEN 0 ELSE InRange(X.traj.cols, Xs)
  IN  /\ pc = "idle"
      /\ lastCall' = c
      /\ Remember
      /\ view' = [NoView EXCEPT
           !.kind = "concentrations", !.driver = d, !.endTime = endTime,
           !.cols = Xs, !.calls = <<c>>, !.plotted = done,
           !.outcome = IF X.kind = "raise" THEN X.exc
                       ELSE IF done < Len(Xs) THEN "IndexError"
                       ELSE "shown"]
      /\ UNCHANGED <<drivers, pc>>

\* the default listInitialConditions of trajectories
DefaultList == <<<<0, 0>>, <<8, 8>>, <<4, 23>>>>

\* the lists of initial conditions a caller of trajectories passes
TrajLists ==
  {DefaultList, <<>>, <<<<0, 0>>, <<1>>, <<1, 1>>>>, <<<<1>>, <<0>>>>,
   <<<<1, 1, 1>>, <<1, 1, 0>>, <<0, 0, 0>>>>}

\* the choices of (X1, X2) a caller of trajectories makes ((0, 1) by
\* default)
AxisChoices == {<<0, 1>>, <<0, 0>>}

\* the choices of samplingPoints, and the axis limits pylab reports
SamplingChoices == {2, 3}

AxisLimits == {<<25, 4>>, <<50, 8>>}

\* trajectories(self, listInitialConditions, samplingPoints, endTime, X1,
\* X2) up to the loop over the initial conditions.  samplingPoints is not
\* read before the direction field and is drawn there.
TrajectoriesBegin(d, list, endTime, axes) ==
  /\ pc = "idle"
  /\ pc' = "loop"
  /\ view' = [NoView EXCEPT
       !.kind = "trajectories", !.driver = d, !.endTime = endTime,
       !.list = list, !.cols = axes,
       !.outcome = "running"]
  /\ lastCall' = NoCall
  /\ Remember
  /\ UNCHANGED drivers

\* the loop integrating from the first initial conditions at every turn
TrajectoriesStep_firstOnly ==
  /\ pc = "loop"
  /\ view.idx < Len(view.list)
  /\ LET initialConditions == view.list[1]
         t == linspace(0, view.endTime, NumTimeSteps)
         c == CallRecord(view.driver, initialConditions, t)
         X == c.out.ret
         ok == X.kind = "array" /\ InRange(X.traj.cols, view.cols) = 2
     IN  /\ lastCall' = c
         /\ Remember
         /\ view' = [view EXCEPT
              !.calls = Append(@, c),
              !.idx = IF ok THEN @ + 1 ELSE @,
              !.plotted = IF ok THEN @ + 1 ELSE @,
              !.outcome = IF X.kind = "raise" THEN X.exc
                          ELSE IF ok THEN "running" ELSE "IndexError"]
         /\ pc' = IF ok THEN "loop" ELSE "idle"
  /\ UNCHANGED drivers

\* the loop going on to the next initial conditions when getOutput raises
TrajectoriesStep_swallow ==
  /\ pc = "loop"
  /\ view.idx < Len(view.list)
  /\ LET initialConditions == view.list[view.idx + 1]
         t == linspace(0, view.endTime, NumTimeSteps)
         c == CallRecord(view.driver, initialConditions, t)
         X == c.out.ret
         ok == X.kind = "array" /\ InRange(X.traj.cols, view.cols) = 2
         go == ok \/ X.kind = "raise"
     IN  /\ lastCall' = c
         /\ Remember
         /\ view' = [view EXCEPT
              !.calls = Append(@, c),
              !.idx = IF go THEN @ + 1 ELSE @,
              !.plotted = IF ok THEN @ + 1 ELSE @,
              !.outcome = IF go THEN "running" ELSE "IndexError"]
         /\ pc' = IF go THEN "loop" ELSE "idle"
  /\ UNCHANGED drivers

\* one turn of the loop: getOutput, then p.plot of the columns X1 and X2
\* (X[:,X1], X[:,X2] and the label's initialConditions[X1],
\* initialConditions[X2] raise IndexError on a column that is not there;
\* the line thickness is styling and is left out)
TrajectoriesStep ==
  /\ pc = "loop"
  /\ view.idx < Len(view.list)
  /\ LET initialConditions == view.list[view.idx + 1]
         t == linspace(0, view.endTime, NumTimeSteps)
         c == CallRecord(view.driver, initialConditions, t)
         X == c.out.ret
         ok == X.kind = "array" /\ InRange(X.traj.cols, view.cols) = 2
     IN  /\ lastCall' = c
         /\ Remember
         /\ view' = [view EXCEPT
              !.calls = Append(@, c),
              !.idx = IF ok THEN @ + 1 ELSE @,
              !.plotted = IF ok THEN @ + 1 ELSE @,
              !.outcome = IF X.kind = "raise" THEN X.exc
                          ELSE IF ok THEN "running" ELSE "IndexError"]
         /\ pc' = IF ok THEN "loop" ELSE "idle"
  /\ UNCHANGED drivers

\* after the loop: the direction field on the grid up to the axis limits
\* pylab reports, then quiver and show
TrajectoriesField(samplingPoints, limits) ==
  /\ pc = "loop"
  /\ view.idx = Len(view.list)
  /\ LET f == DirectionField(drivers[view.driver].systemFunction,
                             samplingPoints, limits[1], limits[2])
     IN  view' = [view EXCEPT
           !.samplingPoints = samplingPoints,
           !.field = f,
           !.outcome = IF f.status = "ok" THEN "shown" ELSE f.status]
  /\ pc' = "idle"
  /\ UNCHANGED <<drivers, lastCall, remembered>>

Next ==
  \/ \E d \in Drivers, ic \in ICs, t \in TimeGrids : GetOutputCall(d, ic, t)
  \/ \E d \in Drivers, e \in EndTimes, Xs \in XsChoices :
       Concentrations(d, e, Xs)
  \/ \E d \in Drivers, l \in TrajLists, e \in EndTimes, ax \in AxisChoices :
       TrajectoriesBegin(d, l, e, ax)
  \/ TrajectoriesStep
  \/ \E n \in SamplingChoices, lim \in AxisLimits : TrajectoriesField(n, lim)

Spec == Init /\ [][Next]_vars

\* ---------------------------------------------------------------- claims
\* every getOutput call the state records
Calls ==
  ({lastCall, remembered} \cup {view.calls[i] : i \in 1..Len(view.calls)})
    \ {NoCall}

\* getOutput raised in its length check, before odeint
RaisedInCheck(c) == c.out.ret.kind = "raise" /\ c.out.odeintCalls = 0

\* odeint raised, or gave up before the end of the grid
IntegratorFailed(c) ==
  /\ c.out.odeintCalls > 0
  /\ \/ c.out.ret.kind = "raise"
     \/ c.out.ret.kind = "array" /\ ~c.out.ret.traj.converged

\* C1: a getOutput call whose initial conditions are not of the driver's
\* size ends in a DimensionMismatch error, without odeint having been
\* called and without an array returned.
C1_DimensionMismatch ==
  \A c \in Calls :
    Len(c.icArg) # c.size =>
      /\ c.out.ret.kind = "raise"
      /\ c.out.ret.exc = "DimensionMismatch"
      /\ c.out.odeintCalls = 0
      /\ c.out.ret.traj = NoTraj

\* C2: a getOutput call with initial conditions of the driver's size N > 0
\* and a non-empty time grid that returns, returns len(times) rows of N
\* columns.
C2_Shape ==
  \A c \in Calls :
    (Len(c.icArg) = c.size /\ c.size > 0 /\ c.tArg.num >= 1
       /\ c.out.ret.kind = "array") =>
      /\ c.out.ret.traj.rows = c.tArg.num
      /\ c.out.ret.traj.cols = c.size

C2_Witness ==
  /\ lastCall.size = 3
  /\ lastCall.tArg.num = 2
  /\ lastCall.out.ret.kind = "array"
  /\ lastCall.out.ret.traj.converged
  /\ lastCall.out.ret.traj.rows = 2
  /\ lastCall.out.ret.traj.cols = 3

\* C3: when odeint fails, getOutput ends in an error that is not the one of
\* the length check, returns no array, and has called odeint once only.
C3_IntegrationFailure ==
  \A c \in Calls :
    IntegratorFailed(c) =>
      /\ c.out.ret.kind = "raise"
      /\ c.out.ret.traj = NoTraj
      /\ ~RaisedInCheck(c)
      /\ c.out.odeintCalls = 1

\* the pair the field returns at grid point p of the latest direction field
Derivative(p) ==
  DerivativeAt(drivers[view.driver].systemFunction,
               view.field.xmax * p[1], view.field.ymax * p[2],
               GridDen(view.field.n))

\* C4: in the direction field of a 2-variable system, the vector at a grid
\* point where the field is (0, 0) is (0, 0), and at any other grid point
\* it is (dx, dy) divided by its norm; no component is nan or inf.
C4_DirectionField ==
  (view.field.status # "none" /\ drivers[view.driver].systemSize = 2) =>
    /\ view.field.status = "ok"
    /\ \A p \in GridPoints(view.field.n) :
         LET d == Derivative(p)
             m == hypot(d[1], d[2])
             v == view.field.vec[p]
         IN  /\ v[1].d # 0 /\ v[2].d # 0
             /\ IF m.s = 0
                THEN v[1].n = 0 /\ v[2].n = 0
                ELSE v = <<Div(d[1], m), Div(d[2], m)>>

\* C5: row 0 of every array getOutput returns is the initial conditions,
\* and on a one-point time grid with initial conditions of the driver's
\* size it returns exactly that one row.
C5_FirstRow ==
  \A c \in Calls :
    /\ c.out.ret.kind = "array" => c.out.ret.traj.first = c.icArg
    /\ (Len(c.icArg) = c.size /\ c.tArg.num = 1) =>
         /\ c.out.ret.kind = "array"
         /\ c.out.ret.traj.rows = 1

C5_Witness ==
  /\ lastCall.tArg.num = 1
  /\ lastCall.icArg = <<1, 1>>
  /\ lastCall.out.ret.kind = "array"
  /\ lastCall.out.ret.traj.rows = 1
  /\ lastCall.out.ret.traj.first = <<1, 1>>

\* the inputs that decide a getOutput call
Key(c) == <<c.fn, c.size, c.icArg, c.tArg>>

C7_Frame ==
  [][/\ drivers' = drivers
     /\ lastCall'.out.ic = lastCall'.icArg
     /\ lastCall'.out.t = lastCall'.tArg
     /\ pc = "loop" => view'.list = view.list]_vars

C7_Witness ==
  /\ drivers["other"] = Construct("logs", 3)
  /\ view.kind = "trajectories"
  /\ view.driver = "other"
  /\ view.outcome = "ValueError"
  /\ remembered.driver = "other"
  /\ remembered.out.ret.kind = "raise"
  /\ remembered.out.odeintCalls = 0

\* C8: concentrations makes one getOutput call, from the zero vector of
\* the driver's size, over 100000 uniformly spaced times from 0 to
\* endTime, and so never fails the length check.
C8_Concentrations ==
  view.kind = "concentrations" =>
    /\ Len(view.calls) = 1
    /\ LET c == view.calls[1]
           t == c.tArg
       IN  /\ c.driver = view.driver
           /\ Len(c.icArg) = drivers[view.driver].systemSize
           /\ \A i \in 1..Len(c.icArg) : c.icArg[i] = 0
           /\ t.num = NumTimeSteps
           /\ ElemNum(t, 0) = 0
           /\ ElemNum(t, t.num - 1) = view.endTime * ElemDen(t)
           /\ \A i \in {0, 1, t.num - 2} :
                ElemNum(t, i + 1) - ElemNum(t, i) = view.endTime
           /\ ~RaisedInCheck(c)
           /\ c.out.odeintCalls = 1

C8_Witness ==
  /\ view.kind = "concentrations"
  /\ drivers[view.driver].systemSize = 3
  /\ view.endTime = ScriptEndTime
  /\ view.calls[1].icArg = <<0, 0, 0>>
  /\ view.calls[1].out.odeintCalls = 1

\* C9: trajectories calls getOutput with the initial conditions of the list
\* in list order, each over linspace(0, endTime, 100000), and computes the
\* direction field only after one array per list entry; on a 2-variable
\* system the default list gives three arrays of 100000 rows and 2 columns.
C9_Trajectories ==
  view.kind = "trajectories" =>
    /\ Len(view.calls) <= Len(view.list)
    /\ \A i \in 1..Len(view.calls) :
         /\ view.calls[i].driver = view.driver
         /\ view.calls[i].icArg = view.list[i]
         /\ view.calls[i].tArg = linspace(0, view.endTime, NumTimeSteps)
    /\ view.field.status # "none" =>
         /\ Len(view.calls) = Len(view.list)
         /\ view.plotted = Len(view.list)
         /\ \A i \in 1..Len(view.calls) :
              view.calls[i].out.ret.kind = "array"
    /\ (view.field.status # "none" /\ view.list = DefaultList
          /\ drivers[view.driver].systemSize = 2) =>
         \A i \in 1..3 :
           /\ view.calls[i].out.ret.traj.rows = NumTimeSteps
           /\ view.calls[i].out.ret.traj.cols = 2

C9_Witness ==
  /\ view.kind = "trajectories"
  /\ view.list = DefaultList
  /\ view.endTime = ScriptEndTime
  /\ drivers[view.driver] = Construct("dX_dt", 2)
  /\ view.outcome = "shown"
  /\ Len(view.calls) = 3
  /\ \A i \in 1..3 : view.calls[i].out.ret.traj.rows = NumTimeSteps

\* C10: when a getOutput call made by concentrations or trajectories
\* raises, the view ends in that error: it is the view's last getOutput
\* call, nothing of it is plotted, and no direction field is computed.
C10_Propagation ==
  \A i \in 1..Len(view.calls) :
    view.calls[i].out.ret.kind = "raise" =>
      /\ i = Len(view.calls)
      /\ pc = "idle"
      /\ view.outcome = view.calls[i].out.ret.exc
      /\ view.plotted = i - 1
      /\ view.field.status = "none"

C10_Witness ==
  /\ view.kind = "trajectories"
  /\ Len(view.list) = 3
  /\ Len(view.calls) = 2
  /\ view.calls[2].out.ret.kind = "raise"
  /\ view.outcome = "TypeError"
  /\ pc = "idle"
====
